---------------------------- MODULE Spec2Model ----------------------------
(***************************************************************************)
(* A model of sqlquiz's query gate and executor                            *)
(* (src/utils/query_validation.py) and of the HTTP handler that runs and   *)
(* logs queries (src/app_monolithic.py, api_execute).                      *)
(*                                                                         *)
(* Query texts.  A text is a sequence of chunks; every chunk stands for a  *)
(* fixed piece of the character string, and the text is the concatenation  *)
(* of its chunks:                                                          *)
(*                                                                         *)
(*    "Select"  the word  Select      (mixed case)                         *)
(*    "Drop"    the word  Drop        (mixed case, a forbidden keyword)    *)
(*    "FromT"   the characters  *FROM patients  (all rows of the table)      *)
(*    "Limit"   the characters  (space)LIMIT 1                             *)
(*    "NL"      a newline                                                  *)
(*    ";"  "--"  "/*"  "*/"  "'"   these characters themselves             *)
(*                                                                         *)
(* The regular expressions of the gate and the tokenizer of the SQL engine *)
(* read the characters, not the chunks: AtomsOf turns a text into its      *)
(* atoms (single characters, and words that are maximal within their       *)
(* chunk), so that what forms across a join of two chunks (the word        *)
(* tSelect, the comment opener in * / * /) is read as the characters read. *)
(***************************************************************************)
EXTENDS Integers, Sequences, FiniteSets, TLC

Chunks == {"Select", "Drop", "FromT", "Limit", "NL", ";", "--", "/*", "*/", "'"}

\* The chunks that the gate's rules tell apart (no table, no row bound).
GateChunks == {"Select", "Drop", "NL", ";", "--", "/*", "*/", "'"}

\* The longest text given to the gate alone, in chunks.
MaxLen == 5

\* The longest text given to the executor, in chunks.
MaxQueryLen == 3

\* The longest text posted to the web handler, in chunks.
MaxPostLen == 2

SeqsUpTo(S, n) == UNION {[1..m -> S] : m \in 0..n}

GateTexts == SeqsUpTo(GateChunks, MaxLen)
QueryTexts == SeqsUpTo(Chunks, MaxQueryLen)
PostedTexts == SeqsUpTo(Chunks, MaxPostLen)

ChunkAtoms(c) ==
    CASE c = "FromT" -> <<"*", "FROM", " ", "patients">>
      [] c = "Limit" -> <<" ", "LIMIT", " ", "1">>
      [] c = "--" -> <<"-", "-">>
      [] c = "/*" -> <<"/", "*">>
      [] c = "*/" -> <<"*", "/">>
      [] OTHER -> <<c>>

RECURSIVE AtomsOf(_)
AtomsOf(t) == IF t = <<>> THEN <<>> ELSE ChunkAtoms(Head(t)) \o AtomsOf(Tail(t))

\* \w+ : the atom is made of word characters.
IsWord(a) == a \in {"Select", "Drop", "FROM", "patients", "LIMIT", "1"}
\* \s, str.strip(): the atom is a whitespace character.
IsSpace(a) == a \in {" ", "NL"}

\* re.IGNORECASE: the atom with its letters in upper case.
Upper(a) ==
    CASE a = "Select" -> "SELECT"
      [] a = "Drop" -> "DROP"
      [] a = "patients" -> "PATIENTS"
      [] OTHER -> a

DANGEROUS_KEYWORDS ==
    <<"DROP", "DELETE", "INSERT", "UPDATE", "ALTER", "CREATE", "TRUNCATE",
      "REPLACE", "MERGE", "GRANT", "REVOKE", "EXEC", "EXECUTE", "PRAGMA",
      "ATTACH", "DETACH">>

\* The alternation (DROP|DELETE|INSERT|UPDATE|ALTER|CREATE) of DANGEROUS_PATTERNS.
PatternKeywords == {"DROP", "DELETE", "INSERT", "UPDATE", "ALTER", "CREATE"}

\* str.strip(): leading and trailing whitespace removed.
RECURSIVE LStrip(_)
LStrip(a) == IF a # <<>> /\ IsSpace(Head(a)) THEN LStrip(Tail(a)) ELSE a
RECURSIVE RStrip(_)
RStrip(a) ==
    IF a # <<>> /\ IsSpace(a[Len(a)]) THEN RStrip(SubSeq(a, 1, Len(a) - 1)) ELSE a
Strip(a) == RStrip(LStrip(a))

\* The two characters x y stand at positions i, i+1.
Pair(a, i, x, y) == i + 1 <= Len(a) /\ a[i] = x /\ a[i + 1] = y

\* re.sub(r'--.*$', '', query, flags=re.MULTILINE): from each -- to the end of
\* its line; the newline stays.
RECURSIVE RemoveLineComments(_, _, _)
RemoveLineComments(a, i, inComment) ==
    IF i > Len(a) THEN <<>>
    ELSE IF inComment
         THEN IF a[i] = "NL"
              THEN <<a[i]>> \o RemoveLineComments(a, i + 1, FALSE)
              ELSE RemoveLineComments(a, i + 1, TRUE)
         ELSE IF Pair(a, i, "-", "-")
              THEN RemoveLineComments(a, i + 2, TRUE)
              ELSE <<a[i]>> \o RemoveLineComments(a, i + 1, FALSE)

\* The positions j >= i where a closer * / begins.
Closers(a, i) == {j \in i..Len(a) : Pair(a, j, "*", "/")}
Least(S) == CHOOSE j \in S : \A k \in S : j <= k

\* re.sub(r'/\*.*?\*/', '', query, flags=re.DOTALL): from each /* to the next */;
\* a /* that is never closed stays.
RECURSIVE RemoveBlockComments(_, _)
RemoveBlockComments(a, i) ==
    IF i > Len(a) THEN <<>>
    ELSE IF Pair(a, i, "/", "*") /\ Closers(a, i + 2) # {}
         THEN RemoveBlockComments(a, Least(Closers(a, i + 2)) + 2)
         ELSE <<a[i]>> \o RemoveBlockComments(a, i + 1)

remove_sql_comments(a) ==
    RemoveBlockComments(RemoveLineComments(a, 1, FALSE), 1)

\* \b before / after the atom at position i.
BoundaryBefore(a, i) == i = 1 \/ ~IsWord(a[i - 1])
BoundaryAfter(a, i) == i = Len(a) \/ ~IsWord(a[i + 1])

\* The search without re.IGNORECASE: C1 tells it from KeywordSearch.
KeywordSearchCaseSensitive(keyword, a) ==
    \E i \in 1..Len(a) :
        a[i] = keyword /\ BoundaryBefore(a, i) /\ BoundaryAfter(a, i)

\* re.search(rf'\b{keyword}\b', text, re.IGNORECASE)
KeywordSearch(keyword, a) ==
    \E i \in 1..Len(a) :
        Upper(a[i]) = keyword /\ BoundaryBefore(a, i) /\ BoundaryAfter(a, i)

\* One of (DROP|DELETE|INSERT|UPDATE|ALTER|CREATE) begins at the atom, any case.
PatternKeywordAt(a, i) == Upper(a[i]) \in PatternKeywords

\* r';\s*(DROP|DELETE|INSERT|UPDATE|ALTER|CREATE)'
SemicolonPattern(a) ==
    \E i \in 1..Len(a) : \E j \in (i + 1)..Len(a) :
        /\ a[i] = ";"
        /\ \A k \in (i + 1)..(j - 1) : IsSpace(a[k])
        /\ PatternKeywordAt(a, j)

\* r'--.*?(DROP|DELETE|INSERT|UPDATE|ALTER|CREATE)' with re.DOTALL
LineCommentPattern(a) ==
    \E i \in 1..Len(a) : \E j \in (i + 2)..Len(a) :
        Pair(a, i, "-", "-") /\ PatternKeywordAt(a, j)

\* r'/\*.*?(DROP|DELETE|INSERT|UPDATE|ALTER|CREATE).*?\*/' with re.DOTALL
BlockCommentPattern(a) ==
    \E i \in 1..Len(a) : \E j \in (i + 2)..Len(a) :
        Pair(a, i, "/", "*") /\ PatternKeywordAt(a, j) /\ Closers(a, j + 1) # {}

DANGEROUS_PATTERNS(a) ==
    SemicolonPattern(a) \/ LineCommentPattern(a) \/ BlockCommentPattern(a)

\* [stmt.strip() for stmt in query.split(';') if stmt.strip()]: the number of
\* segments between semicolons that hold something other than whitespace.
RECURSIVE Statements(_, _, _)
Statements(a, i, segmentBlank) ==
    IF i > Len(a) THEN (IF segmentBlank THEN 0 ELSE 1)
    ELSE IF a[i] = ";"
         THEN (IF segmentBlank THEN 0 ELSE 1) + Statements(a, i + 1, TRUE)
         ELSE Statements(a, i + 1, segmentBlank /\ IsSpace(a[i]))

\* The match without the closing \b: C3 tells it from StartsWithSelect.
StartsWithSelectPrefix(a) ==
    LET u == LStrip(a)
    IN  u # <<>> /\ Upper(u[1]) = "SELECT"

\* re.match(r'^\s*SELECT\b', text, re.IGNORECASE)
StartsWithSelect(a) ==
    LET u == LStrip(a)
    IN  u # <<>> /\ Upper(u[1]) = "SELECT" /\ BoundaryAfter(u, 1)

\* re.search(r'\bLIMIT\s+\d+\b', text, re.IGNORECASE)
HasLimitClause(a) ==
    \E i \in 1..Len(a) :
        /\ a[i] = "LIMIT" /\ BoundaryBefore(a, i)
        /\ \E j \in (i + 2)..Len(a) :
              /\ \A k \in (i + 1)..(j - 1) : IsSpace(a[k])
              /\ a[j] = "1" /\ BoundaryAfter(a, j)

Denied(message) == [is_valid |-> FALSE, error_message |-> message]
Allowed == [is_valid |-> TRUE, error_message |-> "None"]

\* for keyword in DANGEROUS_KEYWORDS: the first keyword, in list order, found.
FirstKeyword(a) ==
    LET hits == {n \in 1..Len(DANGEROUS_KEYWORDS) : KeywordSearch(DANGEROUS_KEYWORDS[n], a)}
    IN  IF hits = {} THEN "None" ELSE DANGEROUS_KEYWORDS[Least(hits)]

\* The statements counted in the text without its comments: C2 tells it from
\* MultipleStatements.
MultipleStatementsOfAnalysis(query) == Statements(remove_sql_comments(query), 1, TRUE) > 1

\* len(statements) > 1, the statements those of the text itself.
MultipleStatements(query) == Statements(query, 1, TRUE) > 1

\* validate_query of the text whose atoms are `text`.
validate_atoms(text) ==
    IF Strip(text) = <<>> THEN Denied("Query cannot be empty")
    ELSE LET query == Strip(text)
             query_for_analysis == remove_sql_comments(query)
             keyword == FirstKeyword(query_for_analysis)
         IN  IF keyword # "None"
             THEN Denied("Dangerous operation '" \o keyword \o "' not allowed")
             ELSE IF DANGEROUS_PATTERNS(query_for_analysis)
             THEN Denied("Multiple statements or dangerous patterns not allowed")
             ELSE IF MultipleStatements(query)
             THEN Denied("Multiple SQL statements not allowed")
             ELSE IF ~StartsWithSelect(Strip(query_for_analysis))
             THEN Denied("Only SELECT statements are allowed")
             ELSE Allowed

validate_query(query) == validate_atoms(AtomsOf(query))

(***************************************************************************)
(* The SQL engine behind conn.execute (sqlite, through Python's sqlite3).  *)
(* The tokenizer reads the atoms by the engine's own rules, which know     *)
(* string literals and differ from the gate's comment removal; the parser  *)
(* accepts the SELECT statements that the chunks can spell.                *)
(***************************************************************************)

\* The position after the string literal whose body starts at j, 0 when the
\* literal is never closed; '' inside a literal is an escaped quote.
RECURSIVE LiteralEnd(_, _)
LiteralEnd(a, j) ==
    IF j > Len(a) THEN 0
    ELSE IF a[j] = "'"
         THEN (IF Pair(a, j, "'", "'") THEN LiteralEnd(a, j + 2) ELSE j + 1)
         ELSE LiteralEnd(a, j + 1)

\* The first position from i on that holds no word atom.
RECURSIVE WordEnd(_, _)
WordEnd(a, i) == IF i <= Len(a) /\ IsWord(a[i]) THEN WordEnd(a, i + 1) ELSE i

\* The token of the word a[i..j-1]: a keyword, the table name t, a number, any
\* other name, or (digits running into letters) no token at all.
WordToken(a, i, j) ==
    IF j = i + 1
    THEN CASE a[i] = "Select" -> "SELECT"
           [] a[i] = "Drop" -> "DROP"
           [] a[i] = "FROM" -> "FROM"
           [] a[i] = "LIMIT" -> "LIMIT"
           [] a[i] = "patients" -> "T"
           [] a[i] = "1" -> "NUM"
    ELSE IF a[i] = "1" THEN "ILLEGAL" ELSE "ID"

PunctuationToken(c) ==
    CASE c = "*" -> "STAR"
      [] c = "/" -> "SLASH"
      [] c = ";" -> "SEMI"
      [] c = "-" -> "MINUS"

\* The tokens of the atoms from position i on; `appended` tells that the
\* program appends text after the atoms.  "EOC": the text ends inside a
\* comment (-- without a newline after it, /* never closed), which then also
\* holds whatever is appended.  "ILLEGAL": an unclosed literal.  A /* that
\* nothing follows is no comment: it is the two operators.
RECURSIVE Tokens(_, _, _)
Tokens(a, i, appended) ==
    IF i > Len(a) THEN <<>>
    ELSE IF IsSpace(a[i]) THEN Tokens(a, i + 1, appended)
    ELSE IF Pair(a, i, "-", "-")
         THEN LET ends == {j \in (i + 2)..Len(a) : a[j] = "NL"}
              IN  IF ends = {} THEN <<"EOC">> ELSE Tokens(a, Least(ends) + 1, appended)
    ELSE IF Pair(a, i, "/", "*") /\ (appended \/ i + 1 < Len(a))
         THEN IF Closers(a, i + 2) = {} THEN <<"EOC">>
              ELSE Tokens(a, Least(Closers(a, i + 2)) + 2, appended)
    ELSE IF a[i] = "'"
         THEN IF LiteralEnd(a, i + 1) = 0 THEN <<"ILLEGAL">>
              ELSE <<"LIT">> \o Tokens(a, LiteralEnd(a, i + 1), appended)
    ELSE IF IsWord(a[i])
         THEN <<WordToken(a, i, WordEnd(a, i))>> \o Tokens(a, WordEnd(a, i), appended)
    ELSE <<PunctuationToken(a[i])>> \o Tokens(a, i + 1, appended)

\* The parser's state: where it stands in  SELECT result [FROM table [alias]]
\* [LIMIT n], and what the statement selects: "one" row of constants, a
\* "column" without a table, "star" without a table, the rows of "table" t, or
\* the rows of an "other_table".
ParserStart == [phase |-> "START", sem |-> "one"]
SyntaxError(st) == [st EXCEPT !.phase = "SYNTAX"]
Accepting == {"RS", "F1", "F2", "RE", "RA", "L1"}

ParserStep(st, tok) ==
    LET to(p) == [st EXCEPT !.phase = p]
        sel(p, m) == [phase |-> p, sem |-> m]
    IN  CASE st.phase = "START" /\ tok = "SELECT" -> to("R0")
          [] st.phase = "R0" /\ tok = "STAR" -> sel("RS", "star")
          [] st.phase \in {"R0", "RM"} /\ tok \in {"LIT", "NUM"} -> to("RE")
          [] st.phase \in {"R0", "RM"} /\ tok \in {"ID", "T"} -> sel("RE", "column")
          [] st.phase = "RS" /\ tok = "FROM" -> to("F0")
          [] st.phase = "F0" /\ tok = "T" -> sel("F1", "table")
          [] st.phase = "F0" /\ tok = "ID" -> sel("F1", "other_table")
          [] st.phase = "F1" /\ tok \in {"ID", "T", "LIT"} -> to("F2")
          [] st.phase = "RE" /\ tok \in {"ID", "T", "LIT"} -> to("RA")
          [] st.phase = "RE" /\ tok \in {"STAR", "SLASH"} -> to("RM")
          [] st.phase \in {"RS", "F1", "F2", "RE", "RA"} /\ tok = "LIMIT" -> to("L0")
          [] st.phase = "L0" /\ tok = "NUM" -> to("L1")
          [] st.phase = "L1" /\ tok \in {"STAR", "SLASH"} -> to("LM")
          [] OTHER -> SyntaxError(st)

\* The parser fed the tokens from position i on.  It stops at the first syntax
\* error, at a token that is none ("ILLEGAL"), at the end of the statement
\* (";") or of the text; `at` is where it stopped.  Empty statements before
\* the first one are skipped.
RECURSIVE Parse(_, _, _)
Parse(toks, i, st) ==
    IF i <= Len(toks) /\ toks[i] = "SEMI" /\ st.phase = "START"
    THEN Parse(toks, i + 1, st)
    ELSE IF i > Len(toks) \/ toks[i] \in {"SEMI", "EOC"}
    THEN [phase |-> st.phase, sem |-> st.sem, at |-> i]
    ELSE IF toks[i] = "ILLEGAL"
    THEN [phase |-> "ILLEGAL", sem |-> st.sem, at |-> i]
    ELSE IF ParserStep(st, toks[i]).phase = "SYNTAX"
    THEN [phase |-> "SYNTAX", sem |-> st.sem, at |-> i]
    ELSE Parse(toks, i + 1, ParserStep(st, toks[i]))

Failure(message) == [error |-> message, rows |-> <<>>]
Rows(rows) == [error |-> "None", rows |-> rows]

\* The row a SELECT of constants yields.
ConstantRow == 0

\* The rows a parsed statement selects from the store, or the engine's
\* diagnostic; the statement's own LIMIT 1 keeps the first row.
Selected(st, store) ==
    LET own(rows) == IF st.phase = "L1" /\ rows # <<>> THEN <<Head(rows)>> ELSE rows
    IN  CASE st.sem = "star" -> Failure("no tables specified")
          [] st.sem = "other_table" -> Failure("no such table: (name)")
          [] st.sem = "column" -> Failure("no such column: (name)")
          [] st.sem = "table" ->
                IF "patients" \in DOMAIN store THEN Rows(own(store["patients"].rows))
                ELSE Failure("no such table: patients")
          [] st.sem = "one" -> Rows(<<ConstantRow>>)

\* The rows from the offset on, however many: C5 tells it from Window.
WindowUnbounded(rows, limit, offset) == SubSeq(rows, offset + 1, Len(rows))

\* Rows offset+1 .. offset+limit of the rows (LIMIT limit OFFSET offset).
Window(rows, limit, offset) ==
    SubSeq(rows, offset + 1, IF offset + limit < Len(rows) THEN offset + limit ELSE Len(rows))

\* conn.execute(f"SELECT COUNT(*) as total_count FROM ({query}) as subquery"):
\* the statement's one row holds the number of rows the text selects.
CountStatement(query, store) ==
    LET toks == Tokens(AtomsOf(query), 1, TRUE)
        p == Parse(toks, 1, ParserStart)
    IN  IF p.phase = "ILLEGAL" THEN Failure("unrecognized token: (text)")
        ELSE IF p.phase = "SYNTAX" THEN Failure("near (token): syntax error")
        ELSE IF p.at <= Len(toks) /\ toks[p.at] = "SEMI" THEN Failure("near (token): syntax error")
        ELSE IF p.at <= Len(toks) /\ toks[p.at] = "EOC" THEN Failure("incomplete input")
        ELSE IF p.phase \notin Accepting THEN Failure("near (token): syntax error")
        ELSE IF Selected(p, store).error # "None" THEN Selected(p, store)
        ELSE Rows(<<Len(Selected(p, store).rows)>>)

\* conn.execute(f"{query} LIMIT {rows_per_page} OFFSET {offset}").  Python runs
\* one statement: after a ";" only whitespace and comments may follow.
PageStatement(query, store, rows_per_page, offset) ==
    LET toks == Tokens(AtomsOf(query), 1, TRUE)
        p == Parse(toks, 1, ParserStart)
        rest == SubSeq(toks, p.at + 1, Len(toks))
    IN  IF p.phase = "ILLEGAL" THEN Failure("unrecognized token: (text)")
        ELSE IF p.phase = "SYNTAX" THEN Failure("near (token): syntax error")
        ELSE IF p.at <= Len(toks) /\ toks[p.at] = "SEMI"
        THEN IF p.phase \notin Accepting THEN Failure("near (token): syntax error")
             ELSE IF Selected(p, store).error # "None" THEN Selected(p, store)
             ELSE IF rest # <<"EOC">>
             THEN Failure("You can only execute one statement at a time.")
             ELSE Selected(p, store)
        ELSE IF p.at <= Len(toks) /\ toks[p.at] = "EOC"
        THEN IF p.phase \notin Accepting THEN Failure("incomplete input")
             ELSE Selected(p, store)
        ELSE IF ParserStep(p, "LIMIT").phase = "SYNTAX" THEN Failure("near (token): syntax error")
        ELSE IF Selected(p, store).error # "None" THEN Selected(p, store)
        ELSE Rows(Window(Selected(p, store).rows, rows_per_page, offset))

\* conn.execute(query): the text as it stands, nothing appended.
PlainStatement(query, store) ==
    LET toks == Tokens(AtomsOf(query), 1, FALSE)
        p == Parse(toks, 1, ParserStart)
        \* Python's own scan of what follows the statement takes every /* for
        \* a comment.
        tail == Tokens(AtomsOf(query), 1, TRUE)
        rest == SubSeq(tail, p.at + 1, Len(tail))
    IN  IF p.phase = "ILLEGAL" THEN Failure("unrecognized token: (text)")
        ELSE IF p.phase = "SYNTAX" THEN Failure("near (token): syntax error")
        ELSE IF p.phase = "START" /\ rest \in {<<>>, <<"EOC">>} THEN Rows(<<>>)
        ELSE IF p.phase = "START"
        THEN Failure("You can only execute one statement at a time.")
        ELSE IF p.phase \notin Accepting
        THEN (IF p.at <= Len(toks) /\ toks[p.at] = "SEMI"
              THEN Failure("near (token): syntax error") ELSE Failure("incomplete input"))
        ELSE IF Selected(p, store).error # "None" THEN Selected(p, store)
        ELSE IF p.at <= Len(toks) /\ toks[p.at] = "SEMI" /\ rest \notin {<<>>, <<"EOC">>}
        THEN Failure("You can only execute one statement at a time.")
        ELSE Selected(p, store)

(***************************************************************************)
(* The program's state and its operations.                                 *)
(***************************************************************************)

MaxRows == 3
MaxPage == 2
MaxSize == 2
MaxTimeout == 2

VARIABLES
    op,        \* the operation in progress: "none", "validate_query", "execute_safe_query", "api_execute"
    pc,        \* its position: "idle", "connect", "count", "page", "done"
    query,     \* the text it was given
    frame,     \* execute_safe_query's arguments and locals (e: the exception caught)
    verdict,   \* what validate_query returned
    result,    \* what execute_safe_query returned
    conn,      \* the operation's connection to the store: "none", "open", "closed"
    response,  \* what api_execute answered
    audit,     \* the rows the operation wrote to query_logs
    store,     \* the store: table name -> [columns, rows]
    lock,      \* who holds the store's exclusive lock: "free", "writer"
    writer,    \* an ingestion (process_single_csv) running beside the queries
    applied,   \* the library function last applied: its name, argument and value
    upload     \* the upload in progress or done: its file, position and outcome

vars == <<op, pc, query, frame, verdict, result, conn, response, audit, store, lock, writer,
          applied, upload>>

NoTables == <<>>
\* Table patients with one column and the rows 1 .. n.
TableOf(rows) ==
    [name \in {"patients"} |-> [columns |-> <<[name |-> "a", type |-> "INTEGER"]>>, rows |-> rows]]
TableT(n) == TableOf([k \in 1..n |-> k])
Stores == {NoTables} \cup {TableT(n) : n \in 0..MaxRows}

NoVerdict == [is_valid |-> FALSE, error_message |-> "(not called)"]
NoFrame == [timeout_seconds |-> 0, page |-> 0, rows_per_page |-> 0,
            total_count |-> 0, waited |-> 0, elapsed |-> 0, e |-> "None"]
NoResult == [success |-> FALSE, data |-> <<>>, error_message |-> "(not called)",
             execution_time_ms |-> 0, total_count |-> 0, page_count |-> 0]
NoResponse == [status |-> 0, success |-> FALSE, error |-> "(not called)", results |-> <<>>]
WriterOff == [pc |-> "off", rows |-> 0, pending |-> <<>>]
WriterIdle == [pc |-> "idle", rows |-> 0, pending |-> <<>>]
NoCall == [f |-> "none", arg |-> <<>>, value |-> <<>>]
NoUpload == [pc |-> "none"]

Idle ==
    /\ op = "none" /\ pc = "idle" /\ query = <<>> /\ frame = NoFrame
    /\ verdict = NoVerdict /\ result = NoResult /\ conn = "none"
    /\ response = NoResponse /\ audit = <<>>
    /\ applied = NoCall /\ upload = NoUpload

Init == Idle /\ store \in Stores /\ lock = "free" /\ writer = WriterOff
InitGate == Idle /\ store = NoTables /\ lock = "free" /\ writer = WriterOff
InitConc == Idle /\ store \in {NoTables, TableT(MaxRows)} /\ lock = "free" /\ writer = WriterIdle

\* A direct call validate_query(q).
Check(texts) ==
    /\ \E q \in texts :
          /\ query' = q
          /\ verdict' = validate_query(q)
    /\ op' = "validate_query" /\ pc' = "done"
    /\ UNCHANGED <<applied, upload, frame, result, conn, response, audit, store, lock, writer>>

Validate == pc = "idle" /\ Check(GateTexts)

\* execute_safe_query with the connection opened before the text is
\* validated: C20 tells it from Submit.
SubmitConnected(texts, timeouts) ==
    /\ \E q \in texts :
          LET checked == validate_query(q)
          IN  /\ query' = q
              /\ verdict' = checked
              /\ IF checked.is_valid
                 THEN /\ \E t \in timeouts, p \in 1..MaxPage, s \in 1..MaxSize :
                            frame' = [NoFrame EXCEPT !.timeout_seconds = t, !.page = p,
                                                     !.rows_per_page = s]
                      /\ pc' = "connect" /\ result' = result
                 ELSE /\ frame' = frame
                      /\ pc' = "done"
                      /\ result' = [success |-> FALSE, data |-> <<>>,
                                    error_message |-> checked.error_message,
                                    execution_time_ms |-> 0, total_count |-> 0, page_count |-> 0]
    /\ op' = "execute_safe_query"
    /\ conn' = "open"
    /\ UNCHANGED <<applied, upload, response, audit, store, lock, writer>>

\* execute_safe_query(q, timeout_seconds, page, rows_per_page) up to its
\* first statement: a denied text returns at once, without a connection and
\* without a look at the other arguments.
Submit(texts, timeouts) ==
    /\ \E q \in texts :
          LET checked == validate_query(q)
          IN  /\ query' = q
              /\ verdict' = checked
              /\ IF checked.is_valid
                 THEN /\ \E t \in timeouts, p \in 1..MaxPage, s \in 1..MaxSize :
                            frame' = [NoFrame EXCEPT !.timeout_seconds = t, !.page = p,
                                                     !.rows_per_page = s]
                      /\ pc' = "connect" /\ result' = result
                 ELSE /\ frame' = frame
                      /\ pc' = "done"
                      /\ result' = [success |-> FALSE, data |-> <<>>,
                                    error_message |-> checked.error_message,
                                    execution_time_ms |-> 0, total_count |-> 0, page_count |-> 0]
    /\ op' = "execute_safe_query"
    /\ UNCHANGED <<applied, upload, conn, response, audit, store, lock, writer>>

Call == pc = "idle" /\ Submit(QueryTexts, {MaxTimeout})

\* conn = get_db_connection(); PRAGMA busy_timeout.
Connect ==
    /\ pc = "connect"
    /\ conn' = "open" /\ pc' = "count"
    /\ UNCHANGED <<applied, upload, op, query, frame, verdict, result, response, audit, store, lock, writer>>

\* "no such table" in error_message.lower(), and the like, on the engine's
\* diagnostics.
Mentions(message, phrase) ==
    CASE phrase = "no such table" -> message \in {"no such table: patients", "no such table: (name)"}
      [] phrase = "no such column" -> message = "no such column: (name)"
      [] phrase = "syntax error" -> message = "near (token): syntax error"

\* The except branch's message for the exception text e.
Sanitize(e) ==
    IF Mentions(e, "no such table")
    THEN "Table not found. Check the schema for available tables."
    ELSE IF Mentions(e, "no such column")
    THEN "Column not found. Check the table schema for available columns."
    ELSE IF Mentions(e, "syntax error")
    THEN "SQL syntax error. Please check your query syntax."
    ELSE e

\* except Exception as e: the time is measured, the connection is not closed.
Except(e) ==
    /\ \E spent \in 0..1 :
          result' = [success |-> FALSE, data |-> <<>>, error_message |-> Sanitize(e),
                     execution_time_ms |-> frame.elapsed + spent,
                     total_count |-> 0, page_count |-> 0]
    /\ frame' = [frame EXCEPT !.e = e]
    /\ pc' = "done"
    /\ UNCHANGED <<applied, upload, op, query, verdict, conn, response, audit, store, lock, writer>>

\* The count taken of the page instead of the whole result: C7 tells it from
\* CountQuery.
CountQueryOfPage ==
    /\ pc = "count" /\ lock = "free"
    /\ LET counted == CountStatement(query, store)
           page_size == frame.rows_per_page
       IN  IF counted.error # "None"
           THEN Except(counted.error)
           ELSE /\ frame' = [frame EXCEPT !.waited = 0, !.total_count =
                                IF counted.rows[1] < page_size THEN counted.rows[1] ELSE page_size]
                /\ pc' = "page"
                /\ UNCHANGED <<applied, upload, op, query, verdict, result, conn, response, audit, store, lock, writer>>

\* count_cursor = conn.execute(count_query); total_count = fetchone()[0].
CountQuery ==
    /\ pc = "count" /\ lock = "free"
    /\ LET counted == CountStatement(query, store)
       IN  IF counted.error # "None"
           THEN Except(counted.error)
           ELSE /\ frame' = [frame EXCEPT !.total_count = counted.rows[1], !.waited = 0]
                /\ pc' = "page"
                /\ UNCHANGED <<applied, upload, op, query, verdict, result, conn, response, audit, store, lock, writer>>

\* The paginated statement, the result dictionary, conn.close(), return.
PageQuery ==
    /\ pc = "page" /\ lock = "free"
    /\ LET offset == (frame.page - 1) * frame.rows_per_page
           paged == PageStatement(query, store, frame.rows_per_page, offset)
       IN  IF paged.error # "None"
           THEN Except(paged.error)
           ELSE /\ \E spent \in 0..1 :
                      result' = [success |-> TRUE,
                                 data |-> <<[results |-> paged.rows,
                                             total_count |-> frame.total_count,
                                             page |-> frame.page,
                                             rows_per_page |-> frame.rows_per_page]>>,
                                 error_message |-> "None",
                                 execution_time_ms |-> frame.elapsed + spent,
                                 total_count |-> frame.total_count,
                                 page_count |-> Len(paged.rows)]
                /\ conn' = "closed" /\ pc' = "done"
                /\ UNCHANGED <<applied, upload, op, query, frame, verdict, response, audit, store, lock, writer>>

\* The caller takes the answer; the operation's locals are gone.
Return ==
    /\ pc = "done"
    /\ op' = "none" /\ pc' = "idle" /\ query' = <<>> /\ frame' = NoFrame
    /\ verdict' = NoVerdict /\ result' = NoResult /\ conn' = "none"
    /\ response' = NoResponse /\ audit' = <<>>
    /\ UNCHANGED <<applied, upload, store, lock, writer>>

(***************************************************************************)
(* The web handler api_execute with its own gate (execute_user_query) and  *)
(* its audit log (log_query_execution).                                    *)
(***************************************************************************)

\* execute_user_query's cleaned text: every line cut at its first --, the
\* lines stripped and joined by a blank; what it tests of the text does not
\* depend on the whitespace.
query_clean(a) == Strip(RemoveLineComments(a, 1, FALSE))

\* pattern in query_clean for some pattern of dangerous_patterns: a substring
\* test on the upper-cased text.
ProhibitedOperation(a) == \E i \in 1..Len(a) : PatternKeywordAt(a, i)

\* execute_user_query(query): the dictionary it returns.
execute_user_query(q, tables) ==
    LET cleaned == query_clean(AtomsOf(q))
        ran == PlainStatement(q, tables)
    IN  IF cleaned = <<>> \/ Upper(cleaned[1]) # "SELECT"
        THEN [success |-> FALSE, error |-> "Only SELECT queries are allowed", results |-> <<>>]
        ELSE IF ProhibitedOperation(cleaned)
        THEN [success |-> FALSE, error |-> "Query contains prohibited operation: DROP", results |-> <<>>]
        ELSE IF ran.error # "None"
        THEN [success |-> FALSE, error |-> ran.error, results |-> <<>>]
        ELSE [success |-> TRUE, error |-> "None", results |-> ran.rows]

\* The row log_query_execution inserts into query_logs.
log_query_execution(q, answer) ==
    [user_id |-> "user", session_id |-> "session", query_text |-> q,
     success |-> answer.success, error_message |-> answer.error,
     results_count |-> Len(answer.results), ip_address |-> "address"]

\* POST /api/execute with the text q; logFails: the insert into query_logs
\* raises, and the handler with it.
ApiExecute ==
    /\ pc = "idle" /\ lock = "free"
    /\ \E q \in PostedTexts, logFails \in BOOLEAN :
          LET answer == execute_user_query(q, store)
          IN  /\ query' = q
              /\ IF Strip(AtomsOf(q)) = <<>>
                 THEN /\ response' = [status |-> 200, success |-> FALSE,
                                      error |-> "Empty query", results |-> <<>>]
                      /\ audit' = <<>> /\ conn' = "none"
                 ELSE /\ conn' = "closed"
                      /\ IF logFails
                         THEN /\ audit' = <<>>
                              /\ response' = [status |-> 500, success |-> FALSE,
                                              error |-> "Internal Server Error", results |-> <<>>]
                         ELSE /\ audit' = <<log_query_execution(q, answer)>>
                              /\ response' = [status |-> 200, success |-> answer.success,
                                              error |-> answer.error, results |-> answer.results]
    /\ op' = "api_execute" /\ pc' = "done"
    /\ UNCHANGED <<applied, upload, frame, verdict, result, store, lock, writer>>

(***************************************************************************)
(* An ingestion beside the queries: process_single_csv writing table t.    *)
(* DROP and CREATE commit on their own; the INSERTs wait in the writer's   *)
(* transaction until conn.commit().  While a change is written the writer  *)
(* holds the store's exclusive lock and a query's statement is kept        *)
(* waiting, for busy_timeout at most.                                      *)
(***************************************************************************)

\* process_single_csv reaches its connection with a file of n rows.
IngestStart ==
    /\ writer.pc = "idle"
    /\ \E n \in 0..MaxRows : writer' = [pc |-> "drop", rows |-> n, pending |-> <<>>]
    /\ UNCHANGED <<applied, upload, op, pc, query, frame, verdict, result, conn, response, audit, store, lock>>

\* A statement of the writer starts writing: it takes the exclusive lock.
WriterLocks(to) ==
    /\ lock = "free"
    /\ lock' = "writer" /\ writer' = [writer EXCEPT !.pc = to]
    /\ UNCHANGED <<applied, upload, op, pc, query, frame, verdict, result, conn, response, audit, store>>

\* The statement's change is in the store: the lock is released.
WriterWrites(to, tables) ==
    /\ store' = tables /\ lock' = "free" /\ writer' = [writer EXCEPT !.pc = to]
    /\ UNCHANGED <<applied, upload, op, pc, query, frame, verdict, result, conn, response, audit>>

\* conn.execute(f'DROP TABLE IF EXISTS {table_name}')
DropBegin == writer.pc = "drop" /\ WriterLocks("dropping")
DropEnd == writer.pc = "dropping" /\ WriterWrites("create", NoTables)

\* conn.execute(create_sql)
CreateBegin == writer.pc = "create" /\ WriterLocks("creating")
CreateEnd == writer.pc = "creating" /\ WriterWrites("insert", TableT(0))

\* conn.execute(insert_sql, values): the row waits in the transaction.
InsertRow ==
    /\ writer.pc = "insert" /\ Len(writer.pending) < writer.rows
    /\ writer' = [writer EXCEPT !.pending = Append(@, Len(@) + 1)]
    /\ UNCHANGED <<applied, upload, op, pc, query, frame, verdict, result, conn, response, audit, store, lock>>

\* conn.commit(), then conn.close() in the finally.
CommitBegin ==
    /\ writer.pc = "insert" /\ Len(writer.pending) = writer.rows
    /\ WriterLocks("committing")
CommitEnd ==
    /\ writer.pc = "committing"
    /\ store' = TableOf(writer.pending) /\ lock' = "free" /\ writer' = WriterIdle
    /\ UNCHANGED <<applied, upload, op, pc, query, frame, verdict, result, conn, response, audit>>

\* A second passes while the query's statement waits for the lock.
BusyWait ==
    /\ pc \in {"count", "page"} /\ lock # "free"
    /\ frame.waited < frame.timeout_seconds
    /\ frame' = [frame EXCEPT !.waited = @ + 1, !.elapsed = @ + 1]
    /\ UNCHANGED <<applied, upload, op, pc, query, verdict, result, conn, response, audit, store, lock, writer>>

\* busy_timeout is over: the statement raises sqlite3.OperationalError.
BusyTimeout ==
    /\ pc \in {"count", "page"} /\ lock # "free"
    /\ frame.waited = frame.timeout_seconds
    /\ Except("database is locked")

\* The texts queried while an ingestion runs.
IngestTimeTexts == {<<"Select", "FromT">>, <<"Select", "'", "'">>, <<"Select", "Drop">>}

CallDuringIngest == pc = "idle" /\ Submit(IngestTimeTexts, 1..MaxTimeout)

(***************************************************************************)
(* The ingestion library (src/utils/data_processing.py): its pure          *)
(* functions, each applied to an argument of a small set.                  *)
(***************************************************************************)

\* The most columns of a header given to deduplicate_column_names.
MaxColumns == 4

\* The loop of deduplicate_column_names from the i-th name on, `seen` the
\* dictionary of the names met with the number of their repeats.  A variant
\* that numbers the repeats from 2: C15 tells it from Deduplicate.
RECURSIVE DeduplicateFromTwo(_, _, _)
DeduplicateFromTwo(column_names, i, seen) ==
    IF i > Len(column_names) THEN <<>>
    ELSE LET name == column_names[i]
         IN  IF name \in DOMAIN seen
             THEN <<name \o "_" \o ToString(seen[name] + 2)>>
                  \o DeduplicateFromTwo(column_names, i + 1, [seen EXCEPT ![name] = @ + 1])
             ELSE <<name>> \o DeduplicateFromTwo(column_names, i + 1, (name :> 0) @@ seen)

\* The loop of deduplicate_column_names from the i-th name on, `seen` the
\* dictionary of the names met with the number of their repeats.
RECURSIVE Deduplicate(_, _, _)
Deduplicate(column_names, i, seen) ==
    IF i > Len(column_names) THEN <<>>
    ELSE LET name == column_names[i]
         IN  IF name \in DOMAIN seen
             THEN <<name \o "_" \o ToString(seen[name] + 1)>>
                  \o Deduplicate(column_names, i + 1, [seen EXCEPT ![name] = @ + 1])
             ELSE <<name>> \o Deduplicate(column_names, i + 1, (name :> 0) @@ seen)

deduplicate_column_names(column_names) == Deduplicate(column_names, 1, <<>>)

\* The longest money text drawn character by character.
MaxMoneyLen == 4

\* The texts of a money cell, as sequences of characters: every short text
\* of the characters of such cells, and longer cells.
MoneyTexts ==
    SeqsUpTo({"$", ",", ".", "1", "0", " "}, MaxMoneyLen)
    \cup { <<"$", "1", ",", "2", "3", "4", ".", "5", "6">>,
           <<"1", "2", "3", "4", ".", "5">>,
           <<"$", "1", "0", "0", ".", "0", "0">>,
           <<"$", "5", "0", ".", "5", "0">>,
           <<"1", ".", "9", "9", "9">>,
           <<"N", "/", "A">> }

DecimalDigits == <<"0", "1", "2", "3", "4", "5", "6", "7", "8", "9">>
IsDigit(c) == \E d \in 1..10 : DecimalDigits[d] = c
DigitValue(c) == (CHOOSE d \in 1..10 : DecimalDigits[d] = c) - 1

\* The Python value None, and an integer as a value that may be None.
None == [none |-> TRUE, int |-> 0]
Some(n) == [none |-> FALSE, int |-> n]

\* str.replace(c, ''): the text without the character c.
Remove(text, c) == SelectSeq(text, LAMBDA x : x # c)

\* clean_value: None for an empty, blank or N/A value, else the value
\* stripped (no text here starts with a byte order mark).
clean_value(value) ==
    IF value = <<>> \/ Strip(value) = <<>> \/ value = <<"N", "/", "A">>
    THEN <<>> ELSE Strip(value)

\* The number a sequence of digits writes.
RECURSIVE NumberOf(_)
NumberOf(digits) ==
    IF digits = <<>> THEN 0
    ELSE 10 * NumberOf(SubSeq(digits, 1, Len(digits) - 1)) + DigitValue(digits[Len(digits)])

RECURSIVE PowerOfTen(_)
PowerOfTen(d) == IF d = 0 THEN 1 ELSE 10 * PowerOfTen(d - 1)

\* float(text) of a text of these characters: surrounding whitespace is
\* skipped, then digits with at most one point and at least one digit.
\* FloatError is the ValueError; otherwise the value is digits / 10^decimals.
FloatError(text) ==
    LET t == Strip(text)
    IN  \/ \E k \in 1..Len(t) : ~IsDigit(t[k]) /\ t[k] # "."
        \/ Cardinality({k \in 1..Len(t) : t[k] = "."}) > 1
        \/ ~\E k \in 1..Len(t) : IsDigit(t[k])

FloatOf(text) ==
    LET t == Strip(text)
        point == IF \E k \in 1..Len(t) : t[k] = "."
                 THEN CHOOSE k \in 1..Len(t) : t[k] = "." ELSE Len(t) + 1
    IN  [digits |-> NumberOf(Remove(t, ".")), decimals |-> Len(t) - point + 1 - (IF point <= Len(t) THEN 1 ELSE 0)]

\* round(x / y) of Python 3: to the nearest integer, a tie to the even one.
\* No text of MoneyTexts has a 5 followed by zeros only after its second
\* decimal, so the error of the floating-point product never decides.
Round(x, y) ==
    LET q == x \div y
        r == x % y
    IN  IF 2 * r < y THEN q
        ELSE IF 2 * r > y THEN q + 1
        ELSE IF q % 2 = 0 THEN q ELSE q + 1

\* parse_money_to_cents with int(round(dollars)) for the cents: C14 tells it
\* from parse_money_to_cents.
parse_money_to_dollars(money_str) ==
    LET cleaned == clean_value(money_str)
        stripped == Remove(Remove(cleaned, "$"), ",")
    IN  IF cleaned = <<>> THEN None
        ELSE IF FloatError(stripped) THEN None
        ELSE Some(Round(FloatOf(stripped).digits, PowerOfTen(FloatOf(stripped).decimals)))

parse_money_to_cents(money_str) ==
    LET cleaned == clean_value(money_str)
        stripped == Remove(Remove(cleaned, "$"), ",")
    IN  IF cleaned = <<>> THEN None
        ELSE IF FloatError(stripped) THEN None
        ELSE Some(Round(FloatOf(stripped).digits * 100, PowerOfTen(FloatOf(stripped).decimals)))

\* format_cents_to_dollars of None or an integer: cents / 100.0, the number
\* of dollars with its hundredths.
format_cents_to_dollars(cents) ==
    IF cents.none THEN [none |-> TRUE, dollars |-> 0, hundredths |-> 0]
    ELSE [none |-> FALSE, dollars |-> cents.int \div 100, hundredths |-> cents.int % 100]

\* The most sampled values of a column.
MaxSample == 2

\* Header cells of the first line of a file, as sequences of words, blanks
\* and punctuation.
Headers ==
    { <<"Patient", " ", "ID">>, <<"DOB">>, <<"Charge", " ", "Amount">>,
      <<"start", " ", "balance">>, <<"vendor", " ", "fee">>,
      <<"payment", " ", "date">>, <<"Total", " ", "Charge">>, <<"qty">>,
      <<"fee", " ", "$">>, <<"Total", " ", "Charge", " ", "1">> }

\* \w of clean_column_name: the atom is made of word characters.
IsNameWord(a) ==
    a \in {"Patient", "ID", "DOB", "Charge", "Amount", "start", "balance",
           "vendor", "fee", "payment", "date", "Total", "qty", "_", "1"}

\* re.sub(r'\s+', '_', text): every run of whitespace becomes one underscore.
RECURSIVE Underscored(_)
Underscored(a) ==
    IF a = <<>> THEN <<>>
    ELSE IF IsSpace(Head(a))
         THEN IF Len(a) > 1 /\ IsSpace(a[2]) THEN Underscored(Tail(a))
              ELSE <<"_">> \o Underscored(Tail(a))
         ELSE <<Head(a)>> \o Underscored(Tail(a))

\* clean_column_name: characters other than \w, \s and - are removed, the
\* rest is stripped and its whitespace runs become underscores.
clean_column_name(column_name) ==
    Underscored(Strip(SelectSeq(column_name,
                                LAMBDA a : IsNameWord(a) \/ IsSpace(a) \/ a = "-")))

\* The string the atoms spell.
RECURSIVE Spelled(_)
Spelled(a) == IF a = <<>> THEN "" ELSE Head(a) \o Spelled(Tail(a))

\* The cleaned names of the headers, and the names deduplication makes of
\* them, as atoms.
SuffixedHeaders ==
    {clean_column_name(h) : h \in Headers}
    \cup {clean_column_name(h) \o <<"_", ToString(k)>> : h \in Headers, k \in 1..MaxColumns}

ColumnNames == {Spelled(clean_column_name(h)) : h \in Headers}

\* The atoms of a column name.
NameAtoms(column_name) == CHOOSE a \in SuffixedHeaders : Spelled(a) = column_name

\* The indicators of is_money_column and is_date_column that are substrings
\* of the lower-cased atom.
IndicatorsIn(a) ==
    CASE a = "ID" -> {"id"}
      [] a = "Charge" -> {"charge"}
      [] a = "Amount" -> {"amount"}
      [] a = "start" -> {"start"}
      [] a = "balance" -> {"balance"}
      [] a = "vendor" -> {"end"}
      [] a = "fee" -> {"fee"}
      [] a = "payment" -> {"payment"}
      [] a = "date" -> {"date"}
      [] a = "Total" -> {"total"}
      [] OTHER -> {}

\* any(indicator in column_lower for indicator in indicators)
ContainsAny(column_name, indicators) ==
    LET atoms == NameAtoms(column_name)
    IN  \E k \in 1..Len(atoms) : IndicatorsIn(atoms[k]) \cap indicators # {}

non_money_indicators ==
    {"date", "time", "status", "code", "desc", "description", "id", "number",
     "category", "type", "flag", "name", "office", "center", "system"}
money_indicators ==
    {"amount", "total", "cost", "price", "charge", "payment", "balance",
     "revenue", "income", "expense", "fee", "copay", "deductible"}
date_indicators == {"date", "time", "created", "updated", "start", "end", "birth"}

is_money_column(column_name) ==
    /\ ~ContainsAny(column_name, non_money_indicators)
    /\ ContainsAny(column_name, money_indicators)

is_date_column(column_name) == ContainsAny(column_name, date_indicators)

\* The cells of a data line, as sequences of characters; the empty cell is
\* the value clean_value turns into None.
Cells ==
    { <<>>, <<"$", "5", ".", "0", "0">>, <<"1", "2">>, <<"1", ".", "5">>, <<"P", "1">>,
      <<"1", "9", "8", "0", "-", "0", "1", "-", "0", "1">>,
      <<"0", "5", "/", "0", "5", "/", "1", "9", "9", "0">> }

\* float(value) == int(float(value)): the decimals of the number are zeros.
IsWhole(text) ==
    FloatOf(text).digits % PowerOfTen(FloatOf(text).decimals) = 0

\* determine_column_type for the values of the column in the sample rows,
\* None being the empty cell.
determine_column_type(sample_values, column_name) ==
    LET values == SelectSeq(sample_values, LAMBDA v : clean_value(v) # <<>>)
    IN  IF Len(values) = 0 THEN "TEXT"
        ELSE IF is_date_column(column_name) THEN "TEXT"
        ELSE IF is_money_column(column_name) THEN "INTEGER"
        ELSE IF \E k \in 1..Len(values) : FloatError(values[k]) THEN "TEXT"
        ELSE IF \A k \in 1..Len(values) : IsWhole(values[k]) THEN "INTEGER"
        ELSE "REAL"

\* The values a table holds: NULL, an integer, a real number
\* digits / 10^decimals, or a text.
Value(kind, digits, decimals, text) ==
    [kind |-> kind, digits |-> digits, decimals |-> decimals, text |-> text]
Null == Value("NULL", 0, 0, <<>>)

\* parse_decimal: the float of the cleaned text, None when it is not one.
parse_decimal(decimal_str) ==
    IF clean_value(decimal_str) = <<>> \/ FloatError(clean_value(decimal_str)) THEN Null
    ELSE Value("REAL", FloatOf(clean_value(decimal_str)).digits,
               FloatOf(clean_value(decimal_str)).decimals, <<>>)

\* The digits of the text at the positions from..to write a number of lo..hi.
DatePart(t, from, to, lo, hi) ==
    /\ \A k \in from..to : IsDigit(t[k])
    /\ NumberOf(SubSeq(t, from, to)) \in lo..hi

\* parse_date of a text of ten characters: strptime with %Y-%m-%d, then with
\* %m/%d/%Y, None when neither fits; the date is given in ISO format, as
\* date_obj.isoformat() writes it.  (No cell has a day its month lacks.)
parse_date(date_str) ==
    LET t == clean_value(date_str)
    IN  IF Len(t) = 10 /\ t[5] = "-" /\ t[8] = "-" /\ DatePart(t, 1, 4, 1, 9999)
           /\ DatePart(t, 6, 7, 1, 12) /\ DatePart(t, 9, 10, 1, 31)
        THEN Value("TEXT", 0, 0, t)
        ELSE IF Len(t) = 10 /\ t[3] = "/" /\ t[6] = "/" /\ DatePart(t, 7, 10, 1, 9999)
                /\ DatePart(t, 1, 2, 1, 12) /\ DatePart(t, 4, 5, 1, 31)
        THEN Value("TEXT", 0, 0, SubSeq(t, 7, 10) \o <<"-">> \o SubSeq(t, 1, 2) \o <<"-">> \o SubSeq(t, 4, 5))
        ELSE Null

\* The column affinity of the engine: a text that is written as a number is
\* stored as that number in an INTEGER or REAL column.
Affinity(col_type, value) ==
    IF value.kind = "TEXT" /\ col_type \in {"INTEGER", "REAL"} /\ ~FloatError(value.text)
    THEN IF col_type = "INTEGER" /\ IsWhole(value.text)
         THEN Value("INTEGER", FloatOf(value.text).digits \div PowerOfTen(FloatOf(value.text).decimals),
                    0, <<>>)
         ELSE Value("REAL", FloatOf(value.text).digits, FloatOf(value.text).decimals, <<>>)
    ELSE value

\* The value inserted with a money cell that is no amount kept as its text:
\* C24 tells it from StoredValue.
StoredValueAsText(sample_values, column_name, cell) ==
    LET value == clean_value(cell)
        col_type == determine_column_type(sample_values, column_name)
        converted ==
            IF col_type = "INTEGER" /\ is_money_column(column_name)
            THEN IF value # <<>> /\ ~parse_money_to_cents(value).none
                 THEN Value("INTEGER", parse_money_to_cents(value).int, 0, <<>>)
                 ELSE Value("TEXT", 0, 0, value)
            ELSE IF col_type = "REAL"
            THEN IF value # <<>> THEN parse_decimal(value) ELSE Null
            ELSE IF is_date_column(column_name) /\ value # <<>>
            THEN IF parse_date(value) # Null THEN parse_date(value) ELSE Value("TEXT", 0, 0, value)
            ELSE IF value = <<>> THEN Null ELSE Value("TEXT", 0, 0, value)
    IN  Affinity(col_type, converted)

\* The value process_single_csv inserts for a cell of a column, as the
\* engine stores it.
StoredValue(sample_values, column_name, cell) ==
    LET value == clean_value(cell)
        col_type == determine_column_type(sample_values, column_name)
        converted ==
            IF col_type = "INTEGER" /\ is_money_column(column_name)
            THEN IF value # <<>> /\ ~parse_money_to_cents(value).none
                 THEN Value("INTEGER", parse_money_to_cents(value).int, 0, <<>>) ELSE Null
            ELSE IF col_type = "REAL"
            THEN IF value # <<>> THEN parse_decimal(value) ELSE Null
            ELSE IF is_date_column(column_name) /\ value # <<>>
            THEN IF parse_date(value) # Null THEN parse_date(value) ELSE Value("TEXT", 0, 0, value)
            ELSE IF value = <<>> THEN Null ELSE Value("TEXT", 0, 0, value)
    IN  Affinity(col_type, converted)

(***************************************************************************)
(* Uploads (process_csv_upload and what it calls).  A file is its name, in *)
(* atoms, with what its bytes decode to: the header cells and the cells of *)
(* the data lines; an archive has member files instead.                    *)
(***************************************************************************)

\* The most members of an uploaded archive.
MaxMembers == 2

\* if i >= 100: break -- the data lines sampled for type detection.
SampleRows == 100

\* The files uploaded: patients.csv; another file that derives the table
\* name patients; a file of more data lines than get_sample_data returns; a
\* file whose cleaned header repeats a name next to its suffixed form; a file
\* with a charge that is no amount; bytes
\* that are not UTF-8; a file of no line; a file of another type; a member
\* under __MACOSX/; an upload named as an archive whose bytes are not one.
Files ==
    LET File(filename, decodable, header, rows) ==
            [filename |-> filename, decodable |-> decodable, header |-> header,
             rows |-> rows, members |-> <<>>]
    IN  [patients |->
            File(<<"patients", ".", "csv">>, TRUE,
                 << <<"Patient", " ", "ID">>, <<"DOB">>, <<"Charge", " ", "Amount">> >>,
                 << << <<"P", "1">>, <<"1", "9", "8", "0", "-", "0", "1", "-", "0", "1">>,
                       <<"$", "1", "0", "0", ".", "0", "0">> >>,
                    << <<"P", "2">>, <<"1", "9", "9", "0", "-", "0", "5", "-", "0", "5">>,
                       <<"$", "5", "0", ".", "5", "0">> >> >>),
         update |->
            File(<<"Patients", ".", "CSV">>, TRUE,
                 << <<"Patient", " ", "ID">>, <<"Total", " ", "Charge">> >>,
                 << << <<"P", "1">>, <<"$", "5", ".", "0", "0">> >> >>),
         claims |->
            File(<<"claims", ".", "csv">>, TRUE, << <<"qty">> >>,
                 [r \in 1..6 |-> << <<"1", "2">> >>]),
         repeats |->
            File(<<"claims", ".", "csv">>, TRUE,
                 << <<"Total", " ", "Charge">>, <<"Total", " ", "Charge">>,
                    <<"Total", " ", "Charge", " ", "1">> >>,
                 << << <<"1", "2">>, <<"1", "2">>, <<"1", "2">> >> >>),
         unpriced |->
            File(<<"claims", ".", "csv">>, TRUE,
                 << <<"Patient", " ", "ID">>, <<"Total", " ", "Charge">> >>,
                 << << <<"P", "1">>, <<"$", "5", ".", "0", "0">> >>,
                    << <<"P", "2">>, <<"T", "B", "D">> >> >>),
         broken |-> File(<<"broken", ".", "csv">>, FALSE, <<>>, <<>>),
         empty |-> File(<<"empty", ".", "csv">>, TRUE, <<>>, <<>>),
         notes |-> File(<<"notes", ".", "txt">>, TRUE, <<>>, <<>>),
         fork |->
            File(<<"__MACOSX/", "claims", ".", "csv">>, TRUE, << <<"qty">> >>,
                 [r \in 1..6 |-> << <<"1", "2">> >>]),
         corrupt |-> File(<<"batch", ".", "zip">>, FALSE, <<>>, <<>>)]

\* An archive of the member files.
Archive(members) ==
    [filename |-> <<"batch", ".", "zip">>, decodable |-> TRUE, header |-> <<>>,
     rows |-> <<>>, members |-> members]

Uploads ==
    {Files[f] : f \in DOMAIN Files \ {"fork"}}
    \cup {Archive(m) : m \in SeqsUpTo({Files.patients, Files.update, Files.claims,
                                        Files.broken, Files.notes, Files.fork}, MaxMembers)}

\* str.lower() of an atom of a file name.
Lower(a) ==
    CASE a = "Patients" -> "patients"
      [] a = "CSV" -> "csv"
      [] OTHER -> a

\* \w of the table name's regular expression.
IsFileWord(a) ==
    a \in {"patients", "Patients", "claims", "broken", "empty", "notes", "batch",
           "csv", "CSV", "txt", "zip"}

\* secure_filename: the characters of the name that are letters, digits,
\* dots, dashes and underscores.
secure_filename(filename) ==
    SelectSeq(filename, LAMBDA a : IsFileWord(a) \/ a \in {".", "-", "_"})

\* filename.lower().endswith('.' + extension)
EndsWith(filename, extension) ==
    /\ Len(filename) >= 2
    /\ filename[Len(filename) - 1] = "."
    /\ Lower(filename[Len(filename)]) = extension

\* os.path.splitext(filename)[0].lower() with every character that is not a
\* word character replaced by an underscore.
table_name(filename) ==
    LET root == IF Len(filename) >= 3 /\ filename[Len(filename) - 1] = "."
                THEN SubSeq(filename, 1, Len(filename) - 2) ELSE filename
    IN  Spelled([k \in 1..Len(root) |->
                    IF IsFileWord(root[k]) THEN Lower(root[k]) ELSE "_"])

\* cleaned_fieldnames of a file.
FieldNames(file) ==
    deduplicate_column_names([k \in 1..Len(file.header) |->
                                 Spelled(clean_column_name(file.header[k]))])

\* The cleaned values of the k-th column in sample_rows.
SampleValues(file, k) ==
    [r \in 1..(IF Len(file.rows) < SampleRows THEN Len(file.rows) ELSE SampleRows) |->
        file.rows[r][k]]

\* columns_sql: the name and the type of each column.
Columns(file) ==
    [k \in 1..Len(file.header) |->
        [name |-> FieldNames(file)[k],
         type |-> determine_column_type(SampleValues(file, k), FieldNames(file)[k])]]

\* values of the r-th data line, as the table stores them.
StoredRow(file, r) ==
    [k \in 1..Len(file.header) |->
        StoredValue(SampleValues(file, k), FieldNames(file)[k], file.rows[r][k])]

\* The table a completed process_single_csv of the file leaves.
Built(file) ==
    [columns |-> Columns(file), rows |-> [r \in 1..Len(file.rows) |-> StoredRow(file, r)]]

\* The store without the table, and with the table.
Without(tables, name) ==
    IF DOMAIN tables \ {name} = {} THEN NoTables
    ELSE [n \in DOMAIN tables \ {name} |-> tables[n]]
With(tables, name, table) ==
    [n \in DOMAIN tables \cup {name} |-> IF n = name THEN table ELSE tables[n]]

\* The stores earlier uploads have left.
InitialStores ==
    { NoTables,
      With(NoTables, "patients", Built(Files.patients)),
      With(NoTables, "patients", Built(Files.update)),
      With(NoTables, "claims", Built(Files.claims)),
      With(With(NoTables, "patients", Built(Files.patients)), "claims", Built(Files.claims)) }

\* The result dictionaries of process_single_csv and process_csv_upload.
NoOutcome ==
    [success |-> FALSE, error |-> "(none)", table_name |-> "", rows_imported |-> 0,
     columns |-> 0, message |-> <<0, 0>>, results |-> <<>>]
Imported(name, rows, columns) ==
    [NoOutcome EXCEPT !.success = TRUE, !.error = "None", !.table_name = name,
                      !.rows_imported = rows, !.columns = columns]
Failed(error) == [NoOutcome EXCEPT !.error = error]

\* process_csv_upload(file, clear_existing) is called.
process_csv_upload ==
    /\ upload = NoUpload /\ op = "none" /\ applied = NoCall
    /\ \E file \in Uploads, clear_existing \in BOOLEAN :
          upload' = [pc |-> IF clear_existing THEN "clear" ELSE "dispatch",
                     clear_existing |-> clear_existing, file |-> file, before |-> store,
                     members |-> <<>>, caller |-> "none", current |-> file, row_count |-> 0,
                     done |-> {},
                     results |-> <<>>, result |-> NoOutcome]
    /\ UNCHANGED <<applied, op, pc, query, frame, verdict, result, conn, response, audit,
                   store, lock, writer>>

\* A clearing that drops the table named after the uploaded file and no
\* other: C12 tells it from clear_database.
clear_replaced ==
    /\ upload.pc = "clear"
    /\ store' = Without(store, table_name(upload.file.filename))
    /\ upload' = [upload EXCEPT !.pc = "dispatch"]
    /\ UNCHANGED <<applied, op, pc, query, frame, verdict, result, conn, response, audit,
                   lock, writer>>

\* clear_database: every table that is not the engine's own is dropped.
clear_database ==
    /\ upload.pc = "clear"
    /\ store' = NoTables
    /\ upload' = [upload EXCEPT !.pc = "dispatch"]
    /\ UNCHANGED <<applied, op, pc, query, frame, verdict, result, conn, response, audit,
                   lock, writer>>

\* The branch of process_csv_upload on the secured file name.
Dispatch ==
    /\ upload.pc = "dispatch"
    /\ LET filename == secure_filename(upload.file.filename)
       IN  upload' =
              IF EndsWith(filename, "zip") THEN [upload EXCEPT !.pc = "zip"]
              ELSE IF EndsWith(filename, "csv")
              THEN [upload EXCEPT !.pc = "read", !.caller = "process_csv_upload",
                                  !.current = [upload.file EXCEPT !.filename = filename]]
              ELSE [upload EXCEPT !.pc = "done",
                                  !.result = Failed("Unsupported file type. Please upload CSV or ZIP files.")]
    /\ UNCHANGED <<applied, op, pc, query, frame, verdict, result, conn, response, audit,
                   store, lock, writer>>

\* zipfile.ZipFile(zip_file, 'r'): bytes that are no archive raise, and the
\* except branch of process_zip_upload returns.
ZipOpen ==
    /\ upload.pc = "zip"
    /\ upload' =
          IF upload.file.decodable
          THEN [upload EXCEPT !.pc = "member", !.members = upload.file.members]
          ELSE [upload EXCEPT !.pc = "done", !.result = Failed("Error processing ZIP file: (e)")]
    /\ UNCHANGED <<applied, op, pc, query, frame, verdict, result, conn, response, audit,
                   store, lock, writer>>

\* if file_info.filename.lower().endswith('.csv') and not
\* file_info.filename.startswith('__MACOSX/')
IsTabularMember(file) ==
    EndsWith(file.filename, "csv") /\ file.filename[1] # "__MACOSX/"

\* One turn of the loop over zip_ref.infolist(): a member that is no CSV is
\* passed over; the bytes of a CSV member are decoded, which raises into the
\* except branch of process_zip_upload, or process_single_csv is called.
ZipMember ==
    /\ upload.pc = "member" /\ upload.members # <<>>
    /\ LET file_info == Head(upload.members)
       IN  upload' =
              IF ~IsTabularMember(file_info)
              THEN [upload EXCEPT !.members = Tail(upload.members)]
              ELSE IF ~file_info.decodable
              THEN [upload EXCEPT !.pc = "done",
                                  !.result = Failed("Error processing ZIP file: (e)")]
              ELSE [upload EXCEPT !.pc = "read", !.caller = "process_zip_upload",
                                  !.current = file_info, !.members = Tail(upload.members)]
    /\ UNCHANGED <<applied, op, pc, query, frame, verdict, result, conn, response, audit,
                   store, lock, writer>>

\* The loop has ended: the counts of the results are returned.
ZipReturn ==
    /\ upload.pc = "member" /\ upload.members = <<>>
    /\ LET successful == Cardinality({k \in 1..Len(upload.results) : upload.results[k].success})
       IN  upload' = [upload EXCEPT !.pc = "done",
                         !.result = [NoOutcome EXCEPT !.success = successful > 0,
                                                      !.error = "None",
                                                      !.message = <<successful, Len(upload.results)>>,
                                                      !.results = upload.results]]
    /\ UNCHANGED <<applied, op, pc, query, frame, verdict, result, conn, response, audit,
                   store, lock, writer>>

\* process_single_csv returns its result to its caller.
Finished(outcome) ==
    IF upload.caller = "process_zip_upload"
    THEN [upload EXCEPT !.pc = "member", !.results = Append(upload.results, outcome),
                        !.done = upload.done \cup {table_name(upload.current.filename)}]
    ELSE [upload EXCEPT !.pc = "done", !.result = outcome,
                        !.done = upload.done \cup {table_name(upload.current.filename)}]

\* process_single_csv up to the connection: the content is decoded and its
\* header read; bytes that do not decode and a content without a header line
\* raise into the function's except branch.
ReadContent ==
    /\ upload.pc = "read"
    /\ upload' =
          IF ~upload.current.decodable \/ upload.current.header = <<>>
          THEN Finished(Failed("Error processing (filename): (e)"))
          ELSE [upload EXCEPT !.pc = "drop"]
    /\ UNCHANGED <<applied, op, pc, query, frame, verdict, result, conn, response, audit,
                   store, lock, writer>>

\* Without the DROP TABLE and the CREATE TABLE when the table exists, the data
\* lines being added to the table that is there: C11 tells it from DropTable.
DropTableIfAbsent ==
    /\ upload.pc = "drop"
    /\ store' = store
    /\ upload' = [upload EXCEPT !.pc = IF table_name(upload.current.filename) \in DOMAIN store
                                       THEN "insert" ELSE "create"]
    /\ UNCHANGED <<applied, op, pc, query, frame, verdict, result, conn, response, audit,
                   lock, writer>>

\* DROP TABLE IF EXISTS table_name
DropTable ==
    /\ upload.pc = "drop"
    /\ store' = Without(store, table_name(upload.current.filename))
    /\ upload' = [upload EXCEPT !.pc = "create"]
    /\ UNCHANGED <<applied, op, pc, query, frame, verdict, result, conn, response, audit,
                   lock, writer>>

\* CREATE TABLE table_name (columns_sql): a column name given twice raises.
CreateTable ==
    /\ upload.pc = "create"
    /\ LET names == FieldNames(upload.current)
       IN  IF \E i, j \in 1..Len(names) : i # j /\ names[i] = names[j]
           THEN /\ upload' = Finished(Failed("Error processing (filename): (e)"))
                /\ store' = store
           ELSE /\ upload' = [upload EXCEPT !.pc = "insert", !.row_count = 0]
                /\ store' = With(store, table_name(upload.current.filename),
                                 [columns |-> Columns(upload.current), rows |-> <<>>])
    /\ UNCHANGED <<applied, op, pc, query, frame, verdict, result, conn, response, audit,
                   lock, writer>>

\* conn.execute(insert_sql, values) for the next data line; row_count += 1.
InsertLine ==
    /\ upload.pc = "insert"
    /\ upload.row_count < Len(upload.current.rows)
    /\ store' = [store EXCEPT ![table_name(upload.current.filename)].rows =
                    Append(@, StoredRow(upload.current, upload.row_count + 1))]
    /\ upload' = [upload EXCEPT !.row_count = @ + 1]
    /\ UNCHANGED <<applied, op, pc, query, frame, verdict, result, conn, response,
                   audit, lock, writer>>

\* conn.commit() after the last data line, and the result.
Commit ==
    /\ upload.pc = "insert"
    /\ upload.row_count = Len(upload.current.rows)
    /\ upload' = Finished(Imported(table_name(upload.current.filename), upload.row_count,
                                   Len(FieldNames(upload.current))))
    /\ UNCHANGED <<applied, op, pc, query, frame, verdict, result, conn, response, audit,
                   store, lock, writer>>

\* def get_sample_data(table_name, limit=5)
SampleLimit == 5

\* The statements get_sample_data has the engine execute.
TableListStatement ==
    [sql |-> "SELECT name FROM sqlite_master WHERE type='table' ORDER BY name",
     table_name |-> "", limit |-> 0]
SampleStatement(name, limit) ==
    [sql |-> "SELECT * FROM (table_name) LIMIT (limit)", table_name |-> name, limit |-> limit]

\* The first rows of the table, at most `limit` of them, each as dict(row):
\* its values under the names of their columns.
SampleOf(table, limit) ==
    [r \in 1..(IF Len(table.rows) < limit THEN Len(table.rows) ELSE limit) |->
        [name \in {table.columns[k].name : k \in 1..Len(table.columns)} |->
            table.rows[r][CHOOSE k \in 1..Len(table.columns) : table.columns[k].name = name]]]

\* get_sample_data without the look at the table list: the query is built
\* from any name, and the engine raises on a table it does not have.  C18
\* tells it from SampleData.
SampleDataUnchecked(tables, name) ==
    IF name \in DOMAIN tables
    THEN [error |-> "None", raised |-> FALSE, rows |-> SampleOf(tables[name], SampleLimit),
          statements |-> <<TableListStatement, SampleStatement(name, SampleLimit)>>]
    ELSE [error |-> "no such table: (name)", raised |-> TRUE, rows |-> <<>>,
          statements |-> <<TableListStatement, SampleStatement(name, SampleLimit)>>]

\* get_sample_data(table_name): what it returns and what it had executed.
SampleData(tables, name) ==
    IF name \notin DOMAIN tables
    THEN [error |-> "Invalid table name", raised |-> FALSE, rows |-> <<>>,
          statements |-> <<TableListStatement>>]
    ELSE [error |-> "None", raised |-> FALSE, rows |-> SampleOf(tables[name], SampleLimit),
          statements |-> <<TableListStatement, SampleStatement(name, SampleLimit)>>]

\* The library function f applied to arg, with its value.
Applies(f, arg, value) ==
    /\ applied' = [f |-> f, arg |-> arg, value |-> value]
    /\ UNCHANGED <<op, pc, query, frame, verdict, result, conn, response, audit,
                   store, lock, writer, upload>>

ApplyDeduplicate ==
    /\ applied = NoCall
    /\ \E names \in SeqsUpTo({"Total_Charge", "Total_Charge_1", "Total_Charge_2", "DOB"},
                               MaxColumns) :
          Applies("deduplicate_column_names", names, deduplicate_column_names(names))

ApplyParseMoney ==
    /\ applied = NoCall
    /\ \E money_str \in MoneyTexts :
          Applies("parse_money_to_cents", money_str, parse_money_to_cents(money_str))

\* The stored cents of a cell formatted for display.
ApplyFormatCents ==
    /\ applied.f = "parse_money_to_cents"
    /\ Applies("format_cents_to_dollars", applied, format_cents_to_dollars(applied.value))

NextGate == Validate \/ Return
SpecGate == InitGate /\ [][NextGate]_vars

Next == Call \/ Connect \/ CountQuery \/ PageQuery \/ ApiExecute \/ Return
Spec == Init /\ [][Next]_vars

\* A column of a file is typed from its sampled cells, and its cells are
\* converted for storage; the samples are the short ones and two longer
\* ones of the cell 12 with one P1, which is a tenth and a fifth of them.
ApplyDetermineType ==
    /\ applied = NoCall
    /\ \E column_name \in ColumnNames :
       \E sample_values \in SeqsUpTo(Cells, MaxSample)
                              \cup {[k \in 1..n |-> IF k = n THEN <<"P", "1">> ELSE <<"1", "2">>] :
                                        n \in {5, 10}} :
          Applies("determine_column_type",
                  [column_name |-> column_name, sample_values |-> sample_values],
                  [col_type |-> determine_column_type(sample_values, column_name),
                   stored |-> [k \in 1..Len(sample_values) |->
                                 StoredValue(sample_values, column_name, sample_values[k])]])

\* get_sample_data(table_name) between uploads, for the name of a table of
\* the uploads, such a name in other letters, a name no upload derives, and
\* a text that is no name.
get_sample_data ==
    /\ applied = NoCall /\ op = "none"
    /\ upload = NoUpload \/ upload.pc = "done"
    /\ \E name \in {"patients", "claims", "Patients", "visits", "claims; DROP TABLE claims"} :
          Applies("get_sample_data", name, SampleData(store, name))

\* execute_safe_query is called after an upload has returned, for all rows
\* of patients without and with a LIMIT clause of the text's own.
CallAfterUpload ==
    /\ pc = "idle" /\ applied = NoCall
    /\ upload # NoUpload /\ upload.pc = "done"
    /\ Submit({<<"Select", "FromT">>, <<"Select", "FromT", "Limit">>}, {MaxTimeout})

InitLib == Idle /\ store = NoTables /\ lock = "free" /\ writer = WriterOff
NextLib == ApplyDeduplicate \/ ApplyParseMoney \/ ApplyFormatCents \/ ApplyDetermineType
SpecLib == InitLib /\ [][NextLib]_vars

InitIngest == Idle /\ store \in InitialStores /\ lock = "free" /\ writer = WriterOff
NextIngest ==
    \/ process_csv_upload \/ clear_database \/ Dispatch \/ ZipOpen \/ ZipMember
    \/ ZipReturn \/ ReadContent \/ DropTable \/ CreateTable \/ InsertLine \/ Commit
    \/ get_sample_data
    \/ CallAfterUpload \/ Connect \/ CountQuery \/ PageQuery \/ Return
SpecIngest == InitIngest /\ [][NextIngest]_vars

NextConc ==
    \/ CallDuringIngest \/ Connect \/ CountQuery \/ PageQuery \/ BusyWait \/ BusyTimeout \/ Return
    \/ IngestStart \/ DropBegin \/ DropEnd \/ CreateBegin \/ CreateEnd
    \/ InsertRow \/ CommitBegin \/ CommitEnd
SpecConc == InitConc /\ [][NextConc]_vars

(***************************************************************************)
(* Properties of the query gate.                                           *)
(***************************************************************************)

\* The copy of the text validate_query analyses.
AnalysisCopy(q) == remove_sql_comments(Strip(AtomsOf(q)))

ForbiddenWords ==
    {"DROP", "DELETE", "INSERT", "UPDATE", "ALTER", "CREATE", "TRUNCATE", "REPLACE",
     "MERGE", "GRANT", "REVOKE", "EXEC", "EXECUTE", "PRAGMA", "ATTACH", "DETACH"}

\* A forbidden word stands in the atoms as a whole word, in any letter case.
HasForbiddenWord(a) ==
    \E i \in 1..Len(a) :
        /\ Upper(a[i]) \in ForbiddenWords
        /\ (i = 1 \/ ~IsWord(a[i - 1]))
        /\ (i = Len(a) \/ ~IsWord(a[i + 1]))

\* C1: a text whose analysis copy holds a forbidden keyword as a whole word, in
\* any letter case, is denied by validate_query, and execute_safe_query given it
\* returns success = false with an error and never reaches the store.
C1_KeywordDenied ==
    (op = "execute_safe_query" /\ HasForbiddenWord(AnalysisCopy(query)))
        => /\ ~verdict.is_valid
           /\ pc = "done" /\ conn = "none"
           /\ ~result.success /\ result.error_message # "None" /\ result.data = <<>>

\* A keyword in mixed case after a SELECT and a newline was submitted and denied.
C1_Witness ==
    /\ op = "execute_safe_query" /\ pc = "done"
    /\ query = <<"Select", "NL", "Drop">>
    /\ ~result.success

\* The first non-blank atoms of the segments the text splits into on ";".
SegmentHeads(a) ==
    {i \in 1..Len(a) :
        /\ a[i] # ";" /\ ~IsSpace(a[i])
        /\ \A k \in 1..(i - 1) : (\A j \in k..(i - 1) : a[j] # ";") => IsSpace(a[k])}

\* C2: a text that splits on ";" into more than one non-blank segment is
\* denied, wherever comments stand around the semicolon; no allowed text
\* splits so.
C2_SecondStatementDenied ==
    (op = "validate_query" /\ Cardinality(SegmentHeads(AtomsOf(query))) > 1)
        => ~verdict.is_valid

\* A second statement hidden behind a line comment's semicolon was denied as
\* multiple statements.
C2_Witness ==
    /\ op = "validate_query"
    /\ query = <<"Select", "--", ";", "Select">>
    /\ verdict = Denied("Multiple SQL statements not allowed")

\* C3: an allowed text's analysis copy begins, after leading whitespace, with
\* the word SELECT in any case; a text of nothing but whitespace is denied.
C3_OnlySelect ==
    op = "validate_query" =>
        /\ verdict.is_valid =>
              LET a == LStrip(AnalysisCopy(query))
              IN  /\ a # <<>> /\ Upper(a[1]) = "SELECT"
                  /\ (Len(a) = 1 \/ ~IsWord(a[2]))
        /\ (\A i \in 1..Len(query) : query[i] = "NL") => ~verdict.is_valid

\* A text that opens with a comment and a newline before its SELECT was allowed.
C3_Witness ==
    /\ op = "validate_query"
    /\ query = <<"--", "Drop", "NL", "Select">>
    /\ verdict.is_valid

\* The positions the engine reads as the inside of a string literal, from
\* position i on.
RECURSIVE LiteralPositions(_, _)
LiteralPositions(a, i) ==
    IF i > Len(a) THEN {}
    ELSE IF Pair(a, i, "-", "-")
         THEN LET ends == {j \in (i + 2)..Len(a) : a[j] = "NL"}
              IN  IF ends = {} THEN {} ELSE LiteralPositions(a, Least(ends) + 1)
    ELSE IF Pair(a, i, "/", "*")
         THEN IF Closers(a, i + 2) = {} THEN {}
              ELSE LiteralPositions(a, Least(Closers(a, i + 2)) + 2)
    ELSE IF a[i] = "'" /\ LiteralEnd(a, i + 1) # 0
         THEN ((i + 1)..(LiteralEnd(a, i + 1) - 2)) \cup LiteralPositions(a, LiteralEnd(a, i + 1))
    ELSE LiteralPositions(a, i + 1)

\* The text holds a forbidden keyword, and holds it inside string literals only.
KeywordOnlyInLiteral(a) ==
    LET at == {i \in 1..Len(a) : Upper(a[i]) \in ForbiddenWords}
    IN  at # {} /\ at \subseteq LiteralPositions(a, 1)

\* C4: a text that holds a forbidden keyword only inside a string literal is
\* denied, wherever the literal stands and whatever it holds.
C4_KeywordInLiteralDenied ==
    (op = "validate_query" /\ KeywordOnlyInLiteral(AtomsOf(query))) => ~verdict.is_valid

(***************************************************************************)
(* Properties of execute_safe_query and of the web handler.                *)
(***************************************************************************)

\* C5: a text without a LIMIT clause is not denied for that (a SELECT of the
\* table, of literals and newlines is allowed), and execute_safe_query returns
\* for it at most rows_per_page rows.
C5_NoLimitAcceptedAndBounded ==
    (op = "execute_safe_query" /\ ~HasLimitClause(AnalysisCopy(query))) =>
        /\ (/\ query # <<>> /\ query[1] = "Select"
            /\ \A i \in 2..Len(query) : query[i] \in {"FromT", "NL", "'"}) => verdict.is_valid
        /\ pc = "done" =>
              /\ result.page_count <= frame.rows_per_page
              /\ result.success => Len(result.data[1].results) <= frame.rows_per_page

\* A query without LIMIT over a table larger than the page returned a full page.
C5_Witness ==
    /\ op = "execute_safe_query" /\ pc = "done" /\ result.success
    /\ ~HasLimitClause(AnalysisCopy(query))
    /\ result.page_count = frame.rows_per_page
    /\ result.total_count > frame.rows_per_page

\* The smaller of two numbers.
Min(x, y) == IF x < y THEN x ELSE y

\* C6: for an allowed query whose result, run as it stands, has N rows,
\* execute_safe_query succeeds with rows (p-1)*s+1 .. (p-1)*s+min(s, max(0,
\* N-(p-1)*s)) of it, in order, and echoes page p and rows_per_page s.
C6_ExactPage ==
    (/\ op = "execute_safe_query" /\ pc = "done" /\ verdict.is_valid
     /\ PlainStatement(query, store).error = "None") =>
        LET rows == PlainStatement(query, store).rows
            skipped == (frame.page - 1) * frame.rows_per_page
            kept == IF Len(rows) > skipped
                    THEN Min(frame.rows_per_page, Len(rows) - skipped) ELSE 0
        IN  /\ result.success
            /\ result.data[1].results = SubSeq(rows, skipped + 1, skipped + kept)
            /\ result.page_count = kept
            /\ result.data[1].page = frame.page
            /\ result.data[1].rows_per_page = frame.rows_per_page

\* C7: total_count is the number of rows the text yields run as it stands: so
\* it is once the count statement is done, before the page is fetched, and so
\* it is in every successful result, whatever the page and the page size.
C7_TotalCount ==
    op = "execute_safe_query" =>
        /\ pc = "page" =>
              /\ PlainStatement(query, store).error = "None"
              /\ frame.total_count = Len(PlainStatement(query, store).rows)
        /\ (pc = "done" /\ result.success) =>
              /\ PlainStatement(query, store).error = "None"
              /\ result.total_count = Len(PlainStatement(query, store).rows)
              /\ result.data[1].total_count = result.total_count

\* The second page of a result larger than the page carried the whole count.
C7_Witness ==
    /\ op = "execute_safe_query" /\ pc = "done" /\ result.success
    /\ frame.page = 2
    /\ result.total_count = MaxRows
    /\ result.page_count < result.total_count

\* C8: when a statement of an allowed query fails in the engine, the result is
\* success = false with total_count = 0 and a message that is not the engine's
\* diagnostic.
C8_FriendlyError ==
    (op = "execute_safe_query" /\ pc = "done" /\ frame.e # "None") =>
        /\ ~result.success /\ result.total_count = 0
        /\ result.error_message # frame.e

FriendlyCategories ==
    {"Table not found. Check the schema for available tables.",
     "Column not found. Check the table schema for available columns.",
     "SQL syntax error. Please check your query syntax."}

\* C9: a query that fails on the writer's lock fails once timeout_seconds have
\* passed, with a message of a lock/timeout category of its own: neither the
\* engine's diagnostic nor one of the other categories.
C9_LockTimeoutClassified ==
    (op = "execute_safe_query" /\ pc = "done" /\ frame.e = "database is locked") =>
        /\ frame.waited = frame.timeout_seconds
        /\ ~result.success
        /\ result.error_message # frame.e
        /\ result.error_message \notin FriendlyCategories

\* C10: when a submitted query is done, succeeded, denied or failed, the audit
\* log holds exactly one row for it, with the actor, the text, the execution
\* time, the row count, the success flag and the error message.
C10_AuditedOnce ==
    (pc = "done" /\ op \in {"execute_safe_query", "api_execute"}) =>
        /\ Len(audit) = 1
        /\ audit[1].user_id = "user" /\ audit[1].query_text = query
        /\ "execution_time_ms" \in DOMAIN audit[1]

(***************************************************************************)
(* Properties of the ingestion library.                                    *)
(***************************************************************************)

\* The number of names before the i-th that are equal to it.
EarlierSame(names, i) == Cardinality({j \in 1..(i - 1) : names[j] = names[i]})

\* C15: deduplicate_column_names keeps the length and the order of the
\* headers; the first occurrence of a name is unchanged and its k-th repeat
\* is name_k.
C15_RepeatsSuffixed ==
    applied.f = "deduplicate_column_names" =>
        /\ Len(applied.value) = Len(applied.arg)
        /\ \A i \in 1..Len(applied.arg) :
              applied.value[i] =
                  IF EarlierSame(applied.arg, i) = 0 THEN applied.arg[i]
                  ELSE applied.arg[i] \o "_" \o ToString(EarlierSame(applied.arg, i))

\* Two headers that clean to Total_Charge, a third between them.
C15_Witness ==
    /\ applied.f = "deduplicate_column_names"
    /\ applied.arg = <<"Total_Charge", "DOB", "Total_Charge">>
    /\ applied.value = <<"Total_Charge", "DOB", "Total_Charge_1">>

\* C16: the names deduplicate_column_names produces are pairwise distinct.
C16_NamesDistinct ==
    applied.f = "deduplicate_column_names" =>
        \A i, j \in 1..Len(applied.value) : i # j => applied.value[i] # applied.value[j]

\* A money value as the specification writes it: an optional $, digits with
\* optional commas, and at most two decimals after an optional point.
MoneyValue(text) ==
    LET t == Remove(Remove(text, "$"), ",")
    IN  /\ \A k \in 1..Len(text) : text[k] = "$" => k = 1
        /\ \A k \in 1..Len(t) : IsDigit(t[k]) \/ t[k] = "."
        /\ t # <<>> /\ IsDigit(t[1])
        /\ \A k \in 1..Len(t) : t[k] = "." => k >= Len(t) - 2
        /\ Cardinality({k \in 1..Len(t) : t[k] = "."}) <= 1

\* The whole dollars and the hundredths the text of a money value writes.
WrittenAmount(text) ==
    LET t == Remove(Remove(text, "$"), ",")
        point == IF \E k \in 1..Len(t) : t[k] = "."
                 THEN CHOOSE k \in 1..Len(t) : t[k] = "." ELSE Len(t) + 1
        fraction == SubSeq(t, point + 1, Len(t))
    IN  [dollars |-> NumberOf(SubSeq(t, 1, point - 1)),
         hundredths |-> NumberOf(SubSeq(fraction \o <<"0", "0">>, 1, 2))]

\* C14: a money value is stored as the integer number of its cents, and
\* formatting the stored cents for display gives back the amount written.
C14_MoneyRoundTrip ==
    /\ (applied.f = "parse_money_to_cents" /\ MoneyValue(applied.arg)) =>
          /\ ~applied.value.none
          /\ applied.value.int = 100 * WrittenAmount(applied.arg).dollars
                                 + WrittenAmount(applied.arg).hundredths
    /\ (applied.f = "format_cents_to_dollars" /\ MoneyValue(applied.arg.arg)) =>
          /\ ~applied.value.none
          /\ applied.value.dollars = WrittenAmount(applied.arg.arg).dollars
          /\ applied.value.hundredths = WrittenAmount(applied.arg.arg).hundredths

\* "$1,234.56" was stored as 123456 and is displayed as 1234.56.
C14_Witness ==
    /\ applied.f = "format_cents_to_dollars"
    /\ applied.arg.arg = <<"$", "1", ",", "2", "3", "4", ".", "5", "6">>
    /\ applied.arg.value = Some(123456)
    /\ applied.value = [none |-> FALSE, dollars |-> 1234, hundredths |-> 56]

\* C17: a column whose name carries a money token, no disqualifying token
\* and a date token is typed INTEGER, and its money cells are stored as cents.
C17_MoneyBeforeDate ==
    (/\ applied.f = "determine_column_type"
     /\ is_money_column(applied.arg.column_name)
     /\ is_date_column(applied.arg.column_name)
     /\ \E k \in 1..Len(applied.arg.sample_values) : applied.arg.sample_values[k] # <<>>)
    => /\ applied.value.col_type = "INTEGER"
       /\ \A k \in 1..Len(applied.arg.sample_values) :
             applied.value.stored[k].kind \in {"INTEGER", "NULL"}

(***************************************************************************)
(* Properties of uploads.                                                  *)
(***************************************************************************)

\* A single file has been ingested into a store that had its table.
Reingested ==
    /\ upload # NoUpload /\ upload.pc = "done"
    /\ upload.caller = "process_csv_upload" /\ upload.result.success
    /\ upload.result.table_name \in DOMAIN upload.before

\* C11: after a file is ingested again under a table name the store had, the
\* table has the columns and the data lines of that file and nothing else: it
\* is the table the file leaves in an empty store, and a table made of the
\* same file before is the same table after.
C11_TableReplaced ==
    Reingested =>
        LET table == store[upload.result.table_name]
            file == upload.current
        IN  /\ Len(table.columns) = Len(file.header)
            /\ \A k \in 1..Len(table.columns) :
                  table.columns[k].name = Spelled(clean_column_name(file.header[k]))
            /\ Len(table.rows) = Len(file.rows)
            /\ table = Built(file)
            /\ upload.before[upload.result.table_name] = Built(file)
                  => table = upload.before[upload.result.table_name]

\* Patients.CSV has replaced the table of patients.csv: two columns, one row.
C11_Witness ==
    /\ Reingested
    /\ upload.file = Files.update
    /\ upload.before["patients"] = Built(Files.patients)
    /\ Len(store["patients"].rows) = 1
    /\ Len(store["patients"].columns) = 2

\* The table names of the tabular files of the upload.
BatchNames(file) ==
    IF EndsWith(file.filename, "zip")
    THEN {table_name(file.members[k].filename) :
             k \in {m \in 1..Len(file.members) : IsTabularMember(file.members[m])}}
    ELSE IF EndsWith(file.filename, "csv") THEN {table_name(file.filename)}
    ELSE {}

\* C12: with clear_existing, once the clearing is over the store has no table
\* but those the upload itself has made, and none before its first file;
\* without it, a table no file of the upload derives stays as it was.
C12_ClearedBeforeFirstFile ==
    upload # NoUpload =>
        /\ (upload.clear_existing /\ upload.pc # "clear") =>
              /\ upload.pc \in {"dispatch", "zip"} => store = NoTables
              /\ \A n \in DOMAIN store :
                    n \in upload.done \cup {table_name(upload.current.filename)}
        /\ ~upload.clear_existing =>
              \A n \in DOMAIN upload.before \ BatchNames(upload.file) :
                  n \in DOMAIN store /\ store[n] = upload.before[n]

\* The store had patients and claims; patients.csv was uploaded with
\* clear_existing, and claims is gone.
C12_Witness ==
    /\ upload # NoUpload /\ upload.pc = "done"
    /\ upload.clear_existing
    /\ upload.file = Files.patients
    /\ DOMAIN upload.before = {"patients", "claims"}
    /\ DOMAIN store = {"patients"}

\* C13: an archive that opens gives every tabular member its own result,
\* failed for a member that cannot be read and successful, with its table,
\* for every other one.
C13_MemberFailureIsolated ==
    (/\ upload # NoUpload /\ upload.pc = "done"
     /\ EndsWith(upload.file.filename, "zip") /\ upload.file.decodable)
    => LET tabular == SelectSeq(upload.file.members, IsTabularMember)
       IN  /\ Len(upload.result.results) = Len(tabular)
           /\ \A k \in 1..Len(tabular) :
                 /\ upload.result.results[k].success
                       = (tabular[k].decodable /\ tabular[k].header # <<>>)
                 /\ upload.result.results[k].success
                       => table_name(tabular[k].filename) \in DOMAIN store

\* C18: get_sample_data reads the table list first; for a name that is not
\* in it the result is the error value, nothing is raised and no statement
\* carries the name; for a listed name the result is the first rows of the
\* table, five at most.
C18_SampleNameChecked ==
    applied.f = "get_sample_data" =>
        /\ applied.value.statements[1] = TableListStatement
        /\ ~applied.value.raised
        /\ IF applied.arg \notin DOMAIN store
           THEN /\ applied.value.error = "Invalid table name"
                /\ applied.value.rows = <<>>
                /\ \A k \in 1..Len(applied.value.statements) :
                      applied.value.statements[k].table_name # applied.arg
           ELSE /\ applied.value.error = "None"
                /\ Len(applied.value.rows) <= 5
                /\ Len(applied.value.rows) = Min(5, Len(store[applied.arg].rows))

\* The text was asked for while the store had the table claims: the error
\* value came back and the table is still there.
C18_Witness ==
    /\ applied.f = "get_sample_data"
    /\ applied.arg = "claims; DROP TABLE claims"
    /\ "claims" \in DOMAIN store
    /\ applied.value.error = "Invalid table name"
    /\ Len(applied.value.statements) = 1

\* C19: once patients.csv is ingested, the table patients has the columns
\* Patient_ID (TEXT), DOB (TEXT) and Charge_Amount (INTEGER) with the charges
\* 10000 and 5050; and an allowed text with a LIMIT clause of its own, run by
\* execute_safe_query against the table, succeeds and counts the rows it yields.
C19_EndToEnd ==
    /\ (upload # NoUpload /\ upload.pc = "done" /\ upload.file = Files.patients) =>
          /\ upload.result.success
          /\ store["patients"].columns =
                <<[name |-> "Patient_ID", type |-> "TEXT"], [name |-> "DOB", type |-> "TEXT"],
                  [name |-> "Charge_Amount", type |-> "INTEGER"]>>
          /\ Len(store["patients"].rows) = 2
          /\ store["patients"].rows[1][3] = Value("INTEGER", 10000, 0, <<>>)
          /\ store["patients"].rows[2][3] = Value("INTEGER", 5050, 0, <<>>)
    /\ (/\ op = "execute_safe_query" /\ pc = "done" /\ verdict.is_valid
        /\ HasLimitClause(AtomsOf(query)) /\ "patients" \in DOMAIN store) =>
          /\ result.success
          /\ result.total_count = Len(PlainStatement(query, store).rows)

\* C20: for a text the validator denies, execute_safe_query has returned at
\* once (false, no data, the validator's reason, 0 ms, 0 rows in all, 0 rows
\* in the page) with no connection opened and no statement executed, and the
\* call has left the store, its lock and the audit trail as they were.
C20_DeniedTouchesNothing ==
    /\ [](op = "execute_safe_query" /\ ~validate_query(query).is_valid =>
             /\ pc = "done" /\ conn = "none"
             /\ verdict = validate_query(query)
             /\ frame = NoFrame
             /\ result = [success |-> FALSE, data |-> <<>>,
                          error_message |-> validate_query(query).error_message,
                          execution_time_ms |-> 0, total_count |-> 0, page_count |-> 0]
             /\ result.error_message # "None")
    /\ [][op # "execute_safe_query" /\ op' = "execute_safe_query" =>
             store' = store /\ lock' = lock /\ audit' = audit]_vars

\* DROP ... FROM patients was denied while the store had the table.
C20_Witness ==
    /\ op = "execute_safe_query" /\ pc = "done"
    /\ query = <<"Drop", "FromT">>
    /\ ~verdict.is_valid
    /\ "patients" \in DOMAIN store
    /\ conn = "none"

\* C21: once execute_safe_query has returned, with a result or with an error,
\* no connection that the call opened is still open.
C21_ConnectionsClosed ==
    (op = "execute_safe_query" /\ pc = "done") => conn # "open"

\* C22: when the upload of an archive that opens has returned, every tabular
\* member has exactly one outcome in the batch result: the files counted
\* are the tabular members, the tables counted are the members whose outcome
\* is a success, each with its table in the store, every other member has one
\* failed outcome, and the two counts add up to the files counted.
C22_BatchCounts ==
    (/\ upload # NoUpload /\ upload.pc = "done"
     /\ EndsWith(upload.file.filename, "zip") /\ upload.file.decodable)
    => LET tabular == SelectSeq(upload.file.members, IsTabularMember)
           outcomes == upload.result.results
           created == {k \in 1..Len(outcomes) : outcomes[k].success}
           errors == {k \in 1..Len(outcomes) : ~outcomes[k].success}
       IN  /\ upload.result.message[2] = Len(tabular)
           /\ upload.result.message[1] = Cardinality(created)
           /\ Cardinality(created) + Cardinality(errors) = Len(tabular)
           /\ \A k \in created : outcomes[k].table_name \in DOMAIN store

\* C23: a step taken while the store has the table patients leaves a reader
\* the table as it was or the table with all the rows of the file being
\* ingested; the table is never missing, empty or filled in part.
C23_NeverPartial ==
    [][("patients" \in DOMAIN store) =>
          /\ "patients" \in DOMAIN store'
          /\ \/ store'["patients"] = store["patients"]
             \/ store'["patients"].rows = [k \in 1..writer.rows |-> k]]_vars

\* The money columns of a file: those typed INTEGER by the money rule of
\* their name.
MoneyColumns(file) ==
    LET names == FieldNames(file)
    IN  {k \in 1..Len(file.header) :
            /\ is_money_column(names[k])
            /\ determine_column_type(SampleValues(file, k), names[k]) = "INTEGER"}

\* A cell that is not empty and that parse_money_to_cents cannot parse.
NoAmount(cell) == clean_value(cell) # <<>> /\ parse_money_to_cents(cell).none

\* The result of the last process_single_csv that has returned.
LastOutcome ==
    IF upload.caller = "process_csv_upload" THEN upload.result
    ELSE IF upload.results # <<>> THEN upload.results[Len(upload.results)]
    ELSE NoOutcome

\* The first n data lines of the file are rows of its table: a cell of a
\* money column that is no amount is NULL, every other cell that is not empty
\* has a value.
RowsInserted(file, n) ==
    LET table == store[table_name(file.filename)]
        money == MoneyColumns(file)
    IN  /\ Len(table.rows) = n
        /\ \A r \in 1..n : \A k \in 1..Len(file.header) :
              IF k \in money /\ NoAmount(file.rows[r][k]) THEN table.rows[r][k] = Null
              ELSE clean_value(file.rows[r][k]) # <<>> => table.rows[r][k] # Null

C25_EightyPercentNumeric ==
    (/\ applied.f = "determine_column_type"
     /\ ~is_money_column(applied.arg.column_name)
     /\ ~is_date_column(applied.arg.column_name))
    => LET values == SelectSeq(applied.arg.sample_values, LAMBDA v : clean_value(v) # <<>>)
           Stripped(v) == Remove(Remove(clean_value(v), "$"), ",")
           numeric == {k \in 1..Len(values) : ~FloatError(Stripped(values[k]))}
       IN  applied.value.col_type =
              IF Len(values) > 0 /\ 5 * Cardinality(numeric) >= 4 * Len(values)
              THEN IF \A k \in numeric : IsWhole(Stripped(values[k]))
                   THEN "INTEGER" ELSE "REAL"
              ELSE "TEXT"

\* C26: when process_csv_upload has rejected the file as an unsupported type,
\* with clear_existing or without it, the store is as it was before the call.
C26_UnsupportedLeavesStore ==
    (/\ upload # NoUpload /\ upload.pc = "done"
     /\ upload.result.error = "Unsupported file type. Please upload CSV or ZIP files.")
    => store = upload.before

\* C27: a text that validate_query allows has no forbidden keyword among the
\* tokens the engine reads in it, comments and string literals left out as
\* the engine leaves them out.
C27_NoLiveKeyword ==
    (op = "validate_query" /\ verdict.is_valid)
    => LET live == Tokens(Strip(AtomsOf(query)), 1, TRUE)
       IN  \A k \in 1..Len(live) : live[k] # "DROP"

\* C28: an allowed text that ends in its only ';', executed by
\* execute_safe_query against a store where the engine accepts the statement
\* before the ';', yields a success.
C28_TrailingSemicolonRuns ==
    (/\ op = "execute_safe_query" /\ pc = "done" /\ verdict.is_valid
     /\ Len(query) > 1 /\ query[Len(query)] = ";"
     /\ \A k \in 1..(Len(query) - 1) : query[k] # ";"
     /\ PlainStatement(SubSeq(query, 1, Len(query) - 1), store).error = "None")
    => result.success

\* C29: when process_single_csv has returned a failure for an uploaded file,
\* the table the store had under the file's derived name is still there,
\* with its earlier columns and rows.
C29_FailureKeepsTable ==
    (/\ upload # NoUpload /\ upload.pc = "done"
     /\ upload.caller = "process_csv_upload" /\ ~upload.clear_existing
     /\ ~upload.result.success
     /\ table_name(upload.current.filename) \in DOMAIN upload.before)
    => /\ table_name(upload.current.filename) \in DOMAIN store
       /\ store[table_name(upload.current.filename)]
             = upload.before[table_name(upload.current.filename)]

\* C30: when a batch has returned its counts, the tables it reports as
\* created are as many as the distinct tables its files have left in the
\* store, and the table of every file reported as imported holds that
\* file's rows.
C30_TablesMatchCount ==
    (/\ upload # NoUpload /\ upload.pc = "done"
     /\ EndsWith(upload.file.filename, "zip") /\ upload.result.error = "None")
    => LET tabular == SelectSeq(upload.file.members, IsTabularMember)
           outcomes == upload.result.results
           created == {k \in 1..Len(outcomes) : outcomes[k].success}
       IN  /\ upload.result.message[1]
                 = Cardinality({outcomes[k].table_name : k \in created} \cap DOMAIN store)
           /\ \A k \in created :
                 /\ outcomes[k].table_name \in DOMAIN store
                 /\ store[outcomes[k].table_name] = Built(tabular[k])

=============================================================================
